---------------------------- MODULE Spec2Model ----------------------------
(***************************************************************************)
(* A model of out/plot.py: the script that loads two bracketed lists of    *)
(* floats, derives a time axis from a duration argument and shows both     *)
(* series as stacked plots.                                                *)
(*                                                                         *)
(* Text is a sequence of one-character strings.  A float is a record       *)
(*   [k |-> "fin", n, d]  the rational n/d in lowest terms, d > 0          *)
(*   [k |-> "inf", n, d]  n = 1 or -1, d = 0                               *)
(*   [k |-> "nan", n, d]  n = 0, d = 0                                     *)
(* Finite arithmetic is exact: rounding and overflow of IEEE doubles are   *)
(* outside the model, the special values inf and nan are inside it.        *)
(***************************************************************************)
EXTENDS Integers, Sequences, FiniteSets, TLC

VARIABLES
    pc,        \* the statement the interpreter executes next
    files,     \* the two input files as found on disk (never written)
    args,      \* argv[1:], the command-line arguments after the script name
    cwdSet,    \* os.chdir has run
    handle,    \* handle[k]: "closed" or "open", the file object of file k
    opens,     \* opens[k]: how many times open() was called on file k
    toks,      \* the token list the running comprehension iterates over
    idx,       \* position of the comprehension's next token
    acc,       \* the list the running comprehension has built so far
    exc,       \* the exception in flight ("none" when there is none)
    tensions,  \* tensions[k]: the name tensions<k>, bound or not
    duration,  \* the name duration, bound or not
    t,         \* the name t (the time axis), bound or not
    fig,       \* "none", "created", "shown" or "closed"
    axes,      \* fig.subplots(2, 1) has made ax1 and ax2
    labels,    \* the title and axis labels set so far
    plotted,   \* plotted[k]: the x and y handed to ax<k>.plot
    status,    \* "running", "ok" (exit 0) or "failed" (traceback, exit 1)
    failedAt   \* the statement the traceback names (pc of the failing step)

vars == <<pc, files, args, cwdSet, handle, opens, toks, idx, acc, exc,
          tensions, duration, t, fig, axes, labels, plotted, status, failedAt>>

-----------------------------------------------------------------------------
(* Bounds of the model *)

\* the longest token list the generated input files hold
MaxLen == 3

-----------------------------------------------------------------------------
(* Floats *)

Abs(x) == IF x < 0 THEN -x ELSE x

RECURSIVE GCD(_, _)
GCD(a, b) == IF b = 0 THEN a ELSE GCD(b, a % b)

\* the float n/d (d > 0), in lowest terms
Fin(n, d) ==
    LET g == GCD(Abs(n), d)
    IN  IF n < 0 THEN [k |-> "fin", n |-> -(Abs(n) \div g), d |-> d \div g]
                 ELSE [k |-> "fin", n |-> n \div g, d |-> d \div g]

Inf(sign) == [k |-> "inf", n |-> sign, d |-> 0]
NaN == [k |-> "nan", n |-> 0, d |-> 0]
Zero == Fin(0, 1)

Sign(x) == IF x.n < 0 THEN -1 ELSE IF x.n > 0 THEN 1 ELSE 0

\* IEEE multiplication: nan absorbs, 0 * inf is nan
FMul(x, y) ==
    IF x.k = "nan" \/ y.k = "nan" THEN NaN
    ELSE IF x.k = "inf" \/ y.k = "inf"
         THEN IF Sign(x) * Sign(y) = 0 THEN NaN ELSE Inf(Sign(x) * Sign(y))
         ELSE Fin(x.n * y.n, x.d * y.d)

\* IEEE addition: nan absorbs, inf + (-inf) is nan
FAdd(x, y) ==
    IF x.k = "nan" \/ y.k = "nan" THEN NaN
    ELSE IF x.k = "inf" /\ y.k = "inf"
         THEN IF x.n = y.n THEN x ELSE NaN
         ELSE IF x.k = "inf" THEN x
         ELSE IF y.k = "inf" THEN y
         ELSE Fin(x.n * y.d + y.n * x.d, x.d * y.d)

FNeg(x) == [x EXCEPT !.n = -x.n]
FSub(x, y) == FAdd(x, FNeg(y))

\* x / m for an integer m > 0
FDivInt(x, m) == IF x.k = "fin" THEN Fin(x.n, x.d * m) ELSE x

\* the float of the integer i
FInt(i) == Fin(i, 1)

-----------------------------------------------------------------------------
(* Text *)

Digits == <<"0", "1", "2", "3", "4", "5", "6", "7", "8", "9">>
IsDigit(c) == \E i \in 1..Len(Digits) : Digits[i] = c
DigitVal(c) == (CHOOSE i \in 1..Len(Digits) : Digits[i] = c) - 1
DigitChar(i) == Digits[i + 1]
IsSpace(c) == c \in {" ", "\n", "\t"}

\* s[i:] and s[:i] on 1-based positions
From(s, i) == SubSeq(s, i, Len(s))
Upto(s, i) == SubSeq(s, 1, i)

\* str.strip()
RECURSIVE LStrip(_)
LStrip(s) == IF s # <<>> /\ IsSpace(s[1]) THEN LStrip(Tail(s)) ELSE s
RECURSIVE RStrip(_)
RStrip(s) == IF s # <<>> /\ IsSpace(s[Len(s)]) THEN RStrip(Upto(s, Len(s) - 1)) ELSE s
Strip(s) == RStrip(LStrip(s))

AllDigits(s) == \A i \in 1..Len(s) : IsDigit(s[i])

\* the number a string of digits denotes
RECURSIVE DigitsVal(_)
DigitsVal(s) == IF s = <<>> THEN 0
                ELSE DigitsVal(Upto(s, Len(s) - 1)) * 10 + DigitVal(s[Len(s)])

RECURSIVE Pow10(_)
Pow10(e) == IF e = 0 THEN 1 ELSE 10 * Pow10(e - 1)

ValueError == [k |-> "ValueError", n |-> 0, d |-> 0]

\* an unsigned literal: digits [. digits] or . digits, inf, nan
Unsigned(s) ==
    IF s = <<"i", "n", "f">> THEN Inf(1)
    ELSE IF s = <<"n", "a", "n">> THEN NaN
    ELSE LET dots == {i \in 1..Len(s) : s[i] = "."}
             dot == IF dots = {} THEN Len(s) + 1 ELSE CHOOSE i \in dots : TRUE
             ip == Upto(s, dot - 1)
             fp == From(s, dot + 1)
         IN  IF Cardinality(dots) > 1 \/ ~AllDigits(ip) \/ ~AllDigits(fp)
                \/ Len(ip) + Len(fp) = 0
             THEN ValueError
             ELSE Fin(DigitsVal(ip) * Pow10(Len(fp)) + DigitsVal(fp), Pow10(Len(fp)))

\* float(s) of a string: ValueError when s is not a float literal
Float(s) ==
    LET u == Strip(s)
    IN  IF u = <<>> THEN ValueError
        ELSE IF u[1] = "-"
             THEN LET v == Unsigned(Tail(u))
                  IN  IF v = ValueError THEN v ELSE FNeg(v)
        ELSE IF u[1] = "+" THEN Unsigned(Tail(u))
        ELSE Unsigned(u)

\* the digits of a natural number
RECURSIVE NatStr(_)
NatStr(n) == IF n < 10 THEN <<DigitChar(n)>>
             ELSE NatStr(n \div 10) \o <<DigitChar(n % 10)>>

\* the digits of the fraction f/d, d a power of ten
RECURSIVE FracStr(_, _)
FracStr(f, d) == IF d = 1 THEN <<>>
                 ELSE <<DigitChar(f \div (d \div 10))>> \o FracStr(f % (d \div 10), d \div 10)

\* the least power of ten that d divides (d has only the factors 2 and 5)
RECURSIVE DecDen(_, _)
DecDen(d, p) == IF p % d = 0 THEN p ELSE DecDen(d, p * 10)

\* str(x) of a float in the range repr prints in positional notation
Str(x) ==
    IF x.k = "nan" THEN <<"n", "a", "n">>
    ELSE IF x.k = "inf"
         THEN (IF x.n < 0 THEN <<"-">> ELSE <<>>) \o <<"i", "n", "f">>
    ELSE LET p == DecDen(x.d, 1)
             m == Abs(x.n) * (p \div x.d)
             frac == FracStr(m % p, p)
         IN  (IF x.n < 0 THEN <<"-">> ELSE <<>>)
             \o NatStr(m \div p) \o <<".">>
             \o (IF frac = <<>> THEN <<"0">> ELSE frac)

\* text[1:], the closing character left in place
StripFirst(s) == IF Len(s) <= 1 THEN <<>> ELSE From(s, 2)

\* text.strip()[1:-1], white space around the brackets dropped first
StripTrimmed(s) ==
    IF Len(Strip(s)) <= 2 THEN <<>> ELSE SubSeq(Strip(s), 2, Len(Strip(s)) - 1)

\* text[1:-1]
StripEnds(s) == IF Len(s) <= 2 THEN <<>> ELSE SubSeq(s, 2, Len(s) - 1)

\* a split that drops empty tokens, as text.split() without a separator does
RECURSIVE SplitDropEmpty(_)
SplitDropEmpty(s) ==
    LET seps == {i \in 1..(Len(s) - 1) : s[i] = "," /\ s[i + 1] = " "}
    IN  IF s = <<>> THEN <<>>
        ELSE IF seps = {} THEN <<s>>
        ELSE LET i == CHOOSE j \in seps : \A h \in seps : j <= h
             IN  (IF i = 1 THEN <<>> ELSE <<Upto(s, i - 1)>>)
                 \o SplitDropEmpty(From(s, i + 2))

\* text.split(', '): never an empty list, an empty text gives ['']
RECURSIVE Split(_)
Split(s) ==
    LET seps == {i \in 1..(Len(s) - 1) : s[i] = "," /\ s[i + 1] = " "}
    IN  IF seps = {} THEN <<s>>
        ELSE LET i == CHOOSE j \in seps : \A h \in seps : j <= h
             IN  <<Upto(s, i - 1)>> \o Split(From(s, i + 2))

\* ', '.join(parts)
RECURSIVE Join(_)
Join(parts) ==
    IF parts = <<>> THEN <<>>
    ELSE IF Len(parts) = 1 THEN parts[1]
    ELSE parts[1] \o <<",", " ">> \o Join(Tail(parts))

\* "[" + ", ".join(str(v) for v in values) + "]"
Serialize(values) ==
    <<"[">> \o Join([i \in 1..Len(values) |-> Str(values[i])]) \o <<"]">>

-----------------------------------------------------------------------------
(* numpy.linspace(start, stop, num), endpoint=True *)

\* the samples before the end point is pinned: arange(num) * step + start
LinspaceRaw(start, stop, num, div) ==
    LET delta == FSub(stop, start)
        step == FDivInt(delta, div)
        y(i) == IF div > 0
                THEN IF step = Zero
                     THEN FMul(FDivInt(FInt(i), div), delta)
                     ELSE FMul(FInt(i), step)
                ELSE FMul(FInt(i), delta)
    IN  [j \in 1..num |-> FAdd(y(j - 1), start)]

\* linspace with endpoint=False: num steps, stop itself left out
LinspaceOpen(start, stop, num) == LinspaceRaw(start, stop, num, num)

Linspace(start, stop, num) ==
    LET y == LinspaceRaw(start, stop, num, num - 1)
    IN  IF num > 1 THEN [y EXCEPT ![num] = stop] ELSE y

-----------------------------------------------------------------------------
(* The inputs a run can find *)

Files == {1, 2}

TextFile(s) == [kind |-> "text", text |-> s]
Absent == [kind |-> "absent", text |-> <<>>]
Denied == [kind |-> "denied", text |-> <<>>]

\* 1.0 and -2.5
Values == {Fin(1, 1), Fin(-5, 2)}
BadToken == <<"a">>
Tokens == {Str(v) : v \in Values} \cup {BadToken}

ValueSeqs == UNION {[1..n -> Values] : n \in 0..MaxLen}
TokenSeqs == UNION {[1..n -> Tokens] : n \in 0..MaxLen}

Bracketed == {<<"[">> \o Join(ts) \o <<"]">> : ts \in TokenSeqs}
WithNewline == {b \o <<"\n">> : b \in Bracketed}
\* an empty file, a bare number, a list wrapped in other characters,
\* a token padded with white space
OddTexts == {<<>>,
             <<"1", ".", "0">>,
             <<"a", "1", ".", "0", "a">>,
             <<"[", " ", "1", ".", "0", "\n", "]">>}

FullFiles == {TextFile(s) : s \in Bracketed \cup WithNewline \cup OddTexts}
                 \cup {Absent, Denied}
SmallFiles == {TextFile(Serialize([i \in 1..n |-> Fin(2, 1)])) : n \in 1..MaxLen}
                 \cup {TextFile(<<"[", "a", "]">>), Absent}

\* argv[1:]: nothing, or one of 2.0, -0.5, 0, inf, nan, a
ArgLists == {<<>>,
             << <<"2", ".", "0">> >>,
             << <<"-", "0", ".", "5">> >>,
             << <<"0">> >>,
             << <<"i", "n", "f">> >>,
             << <<"n", "a", "n">> >>,
             << <<"a">> >>}

-----------------------------------------------------------------------------
(* The script *)

At(a, k) == [at |-> a, k |-> k]

Unbound == [bound |-> FALSE, val |-> <<>>]
Bound(v) == [bound |-> TRUE, val |-> v]
NoPlot == [bound |-> FALSE, x |-> <<>>, y |-> <<>>]
NoFloat == [bound |-> FALSE, val |-> Zero]

Init ==
    /\ pc = At("chdir", 0)
    /\ files \in {f \in [Files -> FullFiles \cup SmallFiles] :
                     f[1] \in SmallFiles \/ f[2] \in SmallFiles}
    /\ args \in ArgLists
    /\ cwdSet = FALSE
    /\ handle = [k \in Files |-> "closed"]
    /\ opens = [k \in Files |-> 0]
    /\ toks = <<>>
    /\ idx = 0
    /\ acc = <<>>
    /\ exc = "none"
    /\ tensions = [k \in Files |-> Unbound]
    /\ duration = NoFloat
    /\ t = Unbound
    /\ fig = "none"
    /\ axes = FALSE
    /\ labels = {}
    /\ plotted = [k \in Files |-> NoPlot]
    /\ status = "running"
    /\ failedAt = At("none", 0)

\* an exception no one catches: traceback, exit status 1
Raise(e) ==
    /\ exc' = e
    /\ status' = "failed"
    /\ failedAt' = pc
    /\ pc' = At("exited", 0)

\* line 6: os.chdir(os.path.dirname(os.path.abspath(__file__)))
Chdir ==
    /\ pc = At("chdir", 0)
    /\ cwdSet' = TRUE
    /\ pc' = At("open", 1)
    /\ UNCHANGED <<files, args, handle, opens, toks, idx, acc, exc, tensions,
                   duration, t, fig, axes, labels, plotted, status, failedAt>>

\* an open that treats a file it cannot read as an empty series
OpenLenient(k) ==
    /\ pc = At("open", k)
    /\ opens' = [opens EXCEPT ![k] = @ + 1]
    /\ IF files[k].kind = "text"
       THEN /\ handle' = [handle EXCEPT ![k] = "open"]
            /\ pc' = At("read", k)
       ELSE /\ pc' = IF k = 1 THEN At("open", 2) ELSE At("assert", 0)
            /\ UNCHANGED handle
    /\ UNCHANGED <<files, args, cwdSet, toks, idx, acc, tensions, duration, t,
                   fig, axes, labels, plotted, exc, status, failedAt>>

\* lines 9, 11: open("tensions<k>.txt", 'r') entering the with block
Open(k) ==
    /\ pc = At("open", k)
    /\ opens' = [opens EXCEPT ![k] = @ + 1]
    /\ IF files[k].kind = "text"
       THEN /\ handle' = [handle EXCEPT ![k] = "open"]
            /\ pc' = At("read", k)
            /\ UNCHANGED <<exc, status, failedAt>>
       ELSE /\ Raise(IF files[k].kind = "absent" THEN "FileNotFoundError"
                                                  ELSE "PermissionError")
            /\ UNCHANGED handle
    /\ UNCHANGED <<files, args, cwdSet, toks, idx, acc, tensions, duration, t,
                   fig, axes, labels, plotted>>

\* lines 10, 12: tensions<k>_file.read()[1:-1].split(', ')
Read(k) ==
    /\ pc = At("read", k)
    /\ toks' = Split(StripEnds(files[k].text))
    /\ idx' = 1
    /\ acc' = <<>>
    /\ pc' = At("conv", k)
    /\ UNCHANGED <<files, args, cwdSet, handle, opens, exc, tensions, duration,
                   t, fig, axes, labels, plotted, status, failedAt>>

\* a conversion loop that stops at the first bad token and keeps what it has
ConvKeepPartial(k) ==
    /\ pc = At("conv", k)
    /\ idx <= Len(toks)
    /\ LET v == Float(toks[idx])
       IN  IF v = ValueError
           THEN /\ tensions' = [tensions EXCEPT ![k] = Bound(acc)]
                /\ acc' = <<>>
                /\ pc' = At("exit", k)
                /\ UNCHANGED idx
           ELSE /\ acc' = Append(acc, v)
                /\ idx' = idx + 1
                /\ UNCHANGED <<tensions, pc>>
    /\ UNCHANGED <<files, args, cwdSet, handle, opens, toks, duration, t, fig,
                   axes, labels, plotted, status, exc, failedAt>>

\* lines 10, 12: one round of [float(s) for s in ...]; a ValueError leaves
\* the with block with the list under construction dropped
Conv(k) ==
    /\ pc = At("conv", k)
    /\ idx <= Len(toks)
    /\ LET v == Float(toks[idx])
       IN  IF v = ValueError
           THEN /\ exc' = "ValueError"
                /\ failedAt' = pc
                /\ acc' = <<>>
                /\ pc' = At("exit", k)
                /\ UNCHANGED idx
           ELSE /\ acc' = Append(acc, v)
                /\ idx' = idx + 1
                /\ UNCHANGED <<exc, failedAt, pc>>
    /\ UNCHANGED <<files, args, cwdSet, handle, opens, toks, tensions, duration,
                   t, fig, axes, labels, plotted, status>>

\* lines 10, 12: tensions<k> = <the finished list>
Bind(k) ==
    /\ pc = At("conv", k)
    /\ idx > Len(toks)
    /\ tensions' = [tensions EXCEPT ![k] = Bound(acc)]
    /\ acc' = <<>>
    /\ pc' = At("exit", k)
    /\ UNCHANGED <<files, args, cwdSet, handle, opens, toks, idx, exc, duration,
                   t, fig, axes, labels, plotted, status, failedAt>>

\* a close() that follows the parse without a with block: skipped when the
\* parse raises
ExitLeak(k) ==
    /\ pc = At("exit", k)
    /\ handle' = IF exc = "none" THEN [handle EXCEPT ![k] = "closed"] ELSE handle
    /\ toks' = <<>>
    /\ idx' = 0
    /\ IF exc # "none"
       THEN /\ status' = "failed"
            /\ pc' = At("exited", 0)
       ELSE /\ pc' = IF k = 1 THEN At("open", 2) ELSE At("assert", 0)
            /\ UNCHANGED status
    /\ UNCHANGED <<files, args, cwdSet, opens, acc, exc, tensions, duration, t,
                   fig, axes, labels, plotted, failedAt>>

\* a with block whose __exit__ swallows the exception: the script goes on
ExitContinue(k) ==
    /\ pc = At("exit", k)
    /\ handle' = [handle EXCEPT ![k] = "closed"]
    /\ toks' = <<>>
    /\ idx' = 0
    /\ pc' = IF k = 1 THEN At("open", 2) ELSE At("assert", 0)
    /\ UNCHANGED <<files, args, cwdSet, opens, acc, exc, tensions, duration, t,
                   fig, axes, labels, plotted, status, failedAt>>

\* lines 9-12: leaving the with block closes the file, then an exception in
\* flight goes on to end the run
Exit(k) ==
    /\ pc = At("exit", k)
    /\ handle' = [handle EXCEPT ![k] = "closed"]
    /\ toks' = <<>>
    /\ idx' = 0
    /\ IF exc # "none"
       THEN /\ status' = "failed"
            /\ pc' = At("exited", 0)
       ELSE /\ pc' = IF k = 1 THEN At("open", 2) ELSE At("assert", 0)
            /\ UNCHANGED status
    /\ UNCHANGED <<files, args, cwdSet, opens, acc, exc, tensions, duration, t,
                   fig, axes, labels, plotted, failedAt>>

\* the assert compiled away
AssertSkipped ==
    /\ pc = At("assert", 0)
    /\ pc' = At("duration", 0)
    /\ UNCHANGED <<files, args, cwdSet, handle, opens, toks, idx, acc, tensions,
                   duration, t, fig, axes, labels, plotted, exc, status,
                   failedAt>>

\* line 14: assert len(tensions1) == len(tensions2)
AssertLen ==
    /\ pc = At("assert", 0)
    /\ IF Len(tensions[1].val) = Len(tensions[2].val)
       THEN /\ pc' = At("duration", 0)
            /\ UNCHANGED <<exc, status, failedAt>>
       ELSE Raise("AssertionError")
    /\ UNCHANGED <<files, args, cwdSet, handle, opens, toks, idx, acc, tensions,
                   duration, t, fig, axes, labels, plotted>>

\* a duration that falls back to 0 when the argument is missing or malformed
DurationDefault ==
    /\ pc = At("duration", 0)
    /\ duration' = [bound |-> TRUE,
                    val |-> IF args = <<>> \/ Float(args[1]) = ValueError
                            THEN Zero ELSE Float(args[1])]
    /\ pc' = At("linspace", 0)
    /\ UNCHANGED <<files, args, cwdSet, handle, opens, toks, idx, acc, tensions,
                   t, fig, axes, labels, plotted, exc, status, failedAt>>

\* line 17: duration = float(argv[1])
Duration ==
    /\ pc = At("duration", 0)
    /\ IF args = <<>>
       THEN /\ Raise("IndexError")
            /\ UNCHANGED duration
       ELSE IF Float(args[1]) = ValueError
       THEN /\ Raise("ValueError")
            /\ UNCHANGED duration
       ELSE /\ duration' = [bound |-> TRUE, val |-> Float(args[1])]
            /\ pc' = At("linspace", 0)
            /\ UNCHANGED <<exc, status, failedAt>>
    /\ UNCHANGED <<files, args, cwdSet, handle, opens, toks, idx, acc, tensions,
                   t, fig, axes, labels, plotted>>

\* line 18: t = np.linspace(0, duration, len(tensions1))
MakeAxis ==
    /\ pc = At("linspace", 0)
    /\ t' = Bound(Linspace(Zero, duration.val, Len(tensions[1].val)))
    /\ pc' = At("figure", 0)
    /\ UNCHANGED <<files, args, cwdSet, handle, opens, toks, idx, acc, exc,
                   tensions, duration, fig, axes, labels, plotted, status,
                   failedAt>>

\* line 21: fig = plt.figure()
Figure ==
    /\ pc = At("figure", 0)
    /\ fig' = "created"
    /\ pc' = At("suptitle", 0)
    /\ UNCHANGED <<files, args, cwdSet, handle, opens, toks, idx, acc, exc,
                   tensions, duration, t, axes, labels, plotted, status,
                   failedAt>>

\* line 22: fig.suptitle(...)
Suptitle ==
    /\ pc = At("suptitle", 0)
    /\ labels' = labels \cup {"suptitle"}
    /\ pc' = At("subplots", 0)
    /\ UNCHANGED <<files, args, cwdSet, handle, opens, toks, idx, acc, exc,
                   tensions, duration, t, fig, axes, plotted, status, failedAt>>

\* line 23: ax1, ax2 = fig.subplots(2, 1)
Subplots ==
    /\ pc = At("subplots", 0)
    /\ axes' = TRUE
    /\ pc' = At("plot", 1)
    /\ UNCHANGED <<files, args, cwdSet, handle, opens, toks, idx, acc, exc,
                   tensions, duration, t, fig, labels, plotted, status,
                   failedAt>>

\* lines 25, 28: ax<k>.plot(t, tensions<k>); x and y of different lengths
\* are a ValueError of the plotting library
Plot(k) ==
    /\ pc = At("plot", k)
    /\ IF Len(t.val) = Len(tensions[k].val)
       THEN /\ plotted' = [plotted EXCEPT
                   ![k] = [bound |-> TRUE, x |-> t.val, y |-> tensions[k].val]]
            /\ pc' = At("ylabel", k)
            /\ UNCHANGED <<exc, status, failedAt>>
       ELSE /\ Raise("ValueError")
            /\ UNCHANGED plotted
    /\ UNCHANGED <<files, args, cwdSet, handle, opens, toks, idx, acc, tensions,
                   duration, t, fig, axes, labels>>

\* lines 26, 29: ax<k>.set_ylabel(...)
Ylabel(k) ==
    /\ pc = At("ylabel", k)
    /\ labels' = labels \cup {IF k = 1 THEN "ylabel1" ELSE "ylabel2"}
    /\ pc' = IF k = 1 THEN At("plot", 2) ELSE At("xlabel", 0)
    /\ UNCHANGED <<files, args, cwdSet, handle, opens, toks, idx, acc, exc,
                   tensions, duration, t, fig, axes, plotted, status, failedAt>>

\* line 31: plt.xlabel("Time (s)")
Xlabel ==
    /\ pc = At("xlabel", 0)
    /\ labels' = labels \cup {"xlabel"}
    /\ pc' = At("show", 0)
    /\ UNCHANGED <<files, args, cwdSet, handle, opens, toks, idx, acc, exc,
                   tensions, duration, t, fig, axes, plotted, status, failedAt>>

\* line 32: plt.show() puts the window up and blocks
Show ==
    /\ pc = At("show", 0)
    /\ fig' = "shown"
    /\ pc' = At("blocked", 0)
    /\ UNCHANGED <<files, args, cwdSet, handle, opens, toks, idx, acc, exc,
                   tensions, duration, t, axes, labels, plotted, status,
                   failedAt>>

\* line 32: the viewer closes the window, plt.show() returns, the script ends
Dismiss ==
    /\ pc = At("blocked", 0)
    /\ fig' = "closed"
    /\ status' = "ok"
    /\ pc' = At("exited", 0)
    /\ UNCHANGED <<files, args, cwdSet, handle, opens, toks, idx, acc, exc,
                   tensions, duration, t, axes, labels, plotted, failedAt>>

Next ==
    \/ Chdir
    \/ Open(1) \/ Read(1) \/ Conv(1) \/ Bind(1) \/ Exit(1)
    \/ Open(2) \/ Read(2) \/ Conv(2) \/ Bind(2) \/ Exit(2)
    \/ AssertLen
    \/ Duration
    \/ MakeAxis
    \/ Figure
    \/ Suptitle
    \/ Subplots
    \/ Plot(1) \/ Ylabel(1)
    \/ Plot(2) \/ Ylabel(2)
    \/ Xlabel
    \/ Show
    \/ Dismiss

Spec == Init /\ [][Next]_vars

-----------------------------------------------------------------------------
(* Vocabulary of the properties *)

Exited == At("exited", 0)

\* the tokens the script finds in each text, and in file k
TokenTable ==
    [s \in {f.text : f \in FullFiles \cup SmallFiles} |-> Split(StripEnds(s))]
TokensOf(k) == TokenTable[files[k].text]

\* the texts with a token that is no float literal
BadTexts ==
    {s \in DOMAIN TokenTable :
        \E i \in 1..Len(TokenTable[s]) : Float(TokenTable[s][i]) = ValueError}

\* the texts that serialize a non-empty sequence of values, each with the
\* sequence it serializes
SerializedTexts == {Serialize(vs) : vs \in {w \in ValueSeqs : Len(w) >= 1}}
Origin ==
    [s \in SerializedTexts |-> CHOOSE vs \in ValueSeqs : Serialize(vs) = s]

\* the serialized lists, the empty one too, followed by one newline
NewlineTexts == {Serialize(vs) \o <<"\n">> : vs \in ValueSeqs}

\* something of the figure exists
Rendering ==
    \/ fig # "none"
    \/ axes
    \/ labels # {}
    \/ \E k \in Files : plotted[k].bound

\* the duration argument is missing or is no float literal
BadArg == args = <<>> \/ Float(args[1]) = ValueError

Unreadable(k) == files[k].kind # "text"
BadTokenIn(k) == files[k].kind = "text" /\ files[k].text \in BadTexts
LengthsDiffer ==
    /\ \A k \in Files : ~Unreadable(k) /\ ~BadTokenIn(k)
    /\ Len(TokensOf(1)) # Len(TokensOf(2))

\* both series parsed, of different lengths
Mismatch ==
    /\ tensions[1].bound
    /\ tensions[2].bound
    /\ Len(tensions[1].val) # Len(tensions[2].val)

\* the statements in program order
PcOrder ==
    <<At("chdir", 0),
      At("open", 1), At("read", 1), At("conv", 1), At("exit", 1),
      At("open", 2), At("read", 2), At("conv", 2), At("exit", 2),
      At("assert", 0), At("duration", 0), At("linspace", 0),
      At("figure", 0), At("suptitle", 0), At("subplots", 0),
      At("plot", 1), At("ylabel", 1), At("plot", 2), At("ylabel", 2),
      At("xlabel", 0), At("show", 0), At("blocked", 0), At("exited", 0)>>
Rank(p) == CHOOSE i \in 1..Len(PcOrder) : PcOrder[i] = p

\* i * d / (n - 1) for a finite d
Exact(i, d, n) == Fin(i * d.n, d.d * (n - 1))

-----------------------------------------------------------------------------
(* Properties *)

\* C1: whatever is rendered has len(tensions1) = len(tensions2) = len(t);
\* two parsed series of different lengths end the run with an AssertionError
\* at line 14, before any figure or plot call, and neither series is
\* truncated or padded.
C1_LengthChecked ==
    /\ Rendering =>
          /\ t.bound
          /\ Len(tensions[1].val) = Len(tensions[2].val)
          /\ Len(t.val) = Len(tensions[1].val)
    /\ \A k \in Files : plotted[k].bound =>
          /\ plotted[k].x = t.val
          /\ plotted[k].y = tensions[k].val
          /\ Len(plotted[k].x) = Len(plotted[k].y)
    /\ Mismatch =>
          /\ ~Rendering
          /\ ~t.bound
          /\ pc \in {At("exit", 2), At("assert", 0), Exited}
          /\ pc = Exited =>
                /\ status = "failed"
                /\ exc = "AssertionError"
                /\ failedAt = At("assert", 0)
          /\ \A k \in Files : Len(tensions[k].val) = Len(TokensOf(k))

C1_Witness ==
    /\ Mismatch
    /\ pc = Exited
    /\ failedAt = At("assert", 0)

\* C2 as stated: with a missing or malformed duration argument neither
\* input file is ever opened.
C2_Original ==
    BadArg => /\ opens[1] = 0
              /\ opens[2] = 0
              /\ status # "ok"

\* C2 amended: a missing or malformed duration argument is fatal before
\* anything is rendered, but it is found at line 17 only, after both files
\* were opened, parsed and closed and the length check passed; an error of
\* the files or of the lengths ends the run first.
C2_DurationFatalAfterLoad ==
    BadArg =>
       /\ ~Rendering
       /\ ~duration.bound
       /\ ~t.bound
       /\ status # "ok"
       /\ pc = Exited => status = "failed"
       /\ failedAt = At("duration", 0) =>
             /\ status = "failed"
             /\ exc \in {"IndexError", "ValueError"}
             /\ \A k \in Files : /\ opens[k] = 1
                                 /\ handle[k] = "closed"
                                 /\ tensions[k].bound
             /\ ~Mismatch
       /\ (pc = Exited /\ failedAt # At("duration", 0)) =>
             \/ \E k \in Files : Unreadable(k) \/ BadTokenIn(k)
             \/ LengthsDiffer

C2_Witness ==
    /\ BadArg
    /\ pc = Exited
    /\ failedAt = At("duration", 0)

\* C3: every failure cause (bad duration argument, unreadable file, bad
\* token, different lengths) ends the run failed with nothing rendered,
\* also when the other series is valid.
C3_ErrorsTerminal ==
    /\ status = "failed" =>
          /\ pc = Exited
          /\ exc # "none"
          /\ ~Rendering
    /\ (BadArg \/ LengthsDiffer \/ \E k \in Files : Unreadable(k) \/ BadTokenIn(k)) =>
          /\ ~Rendering
          /\ status # "ok"
          /\ pc = Exited => status = "failed"

C3_Witness ==
    /\ status = "failed"
    /\ tensions[1].bound
    /\ failedAt \in {At("open", 2), At("conv", 2)}

\* C4: a token that is no float literal, at any position, fails the parse of
\* its file with a ValueError; the list built so far is dropped, the name is
\* never bound, and nothing later runs.
C4_AllOrNothing ==
    \A k \in Files :
       /\ BadTokenIn(k) => ~tensions[k].bound
       /\ tensions[k].bound =>
             /\ Len(tensions[k].val) = Len(TokensOf(k))
             /\ \A i \in 1..Len(TokensOf(k)) :
                   tensions[k].val[i] = Float(TokensOf(k)[i])
       /\ failedAt = At("conv", k) =>
             /\ exc = "ValueError"
             /\ acc = <<>>
             /\ ~tensions[k].bound
             /\ ~t.bound
             /\ ~Rendering
             /\ pc \in {At("exit", k), Exited}

C4_Witness ==
    \E k \in Files :
       /\ pc = At("exit", k)
       /\ failedAt = At("conv", k)
       /\ Len(toks) = 3
       /\ idx = 2
       /\ acc = <<>>

\* C5: a file holding "[" + ", ".join(str(v)) + "]" of a non-empty sequence
\* of values parses without error to that sequence, same length, same order.
C5_RoundTrip ==
    \A k \in Files :
       (files[k].kind = "text" /\ files[k].text \in SerializedTexts) =>
          LET vs == Origin[files[k].text]
          IN  /\ failedAt # At("conv", k)
              /\ pc = At("conv", k) => /\ Len(toks) = Len(vs)
                                       /\ acc = SubSeq(vs, 1, idx - 1)
              /\ tensions[k].bound => tensions[k].val = vs

C5_Witness ==
    /\ files[2] = TextFile(Serialize(<<Fin(1, 1), Fin(-5, 2)>>))
    /\ tensions[2].bound
    /\ tensions[2].val = <<Fin(1, 1), Fin(-5, 2)>>

\* C6 as stated: the axis has n values, [0] when n = 1, and from 0 to d in
\* steps of d/(n-1) when n >= 2, for any duration d.
C6_Original ==
    t.bound =>
       LET n == Len(t.val)
           d == duration.val
       IN  /\ n = Len(tensions[1].val)
           /\ n = 1 => t.val = <<Zero>>
           /\ n >= 2 =>
                 /\ t.val[1] = Zero
                 /\ t.val[n] = d
                 /\ \A i \in 1..(n - 1) :
                       FSub(t.val[i + 1], t.val[i]) = FDivInt(d, n - 1)

\* C6 amended: the axis always has n values; for a finite duration d it is
\* [0] when n = 1 and i*d/(n-1) at index i when n >= 2 (from 0 to d, uniform
\* spacing); for d = inf or nan the value at index 0 is nan.
C6_Axis ==
    t.bound =>
       LET n == Len(t.val)
           d == duration.val
       IN  /\ n = Len(tensions[1].val)
           /\ d.k = "fin" =>
                 /\ n = 1 => t.val = <<Zero>>
                 /\ n >= 2 =>
                       /\ \A i \in 0..(n - 1) : t.val[i + 1] = Exact(i, d, n)
                       /\ t.val[1] = Zero
                       /\ t.val[n] = d
                       /\ \A i \in 1..(n - 1) :
                             FSub(t.val[i + 1], t.val[i]) = FDivInt(d, n - 1)
           /\ d.k # "fin" => t.val[1] = NaN

C6_Witness ==
    /\ t.bound
    /\ duration.val = Fin(2, 1)
    /\ t.val = <<Zero, Fin(1, 1), Fin(2, 1)>>

\* C7 as stated: the file "[]" fails its parse with an error of its own
\* kind, EmptyDataError.
C7_Original ==
    \A k \in Files :
       (files[k] = TextFile(<<"[", "]">>) /\ failedAt = At("conv", k)) =>
          exc = "EmptyDataError"

\* C7 amended: the file "[]" has the one empty token '', whose conversion
\* fails with the ValueError of any malformed token; no series is ever bound
\* to an empty list, so the axis is never computed for 0 samples.
C7_EmptyList ==
    /\ \A k \in Files :
          (files[k].kind = "text" /\ StripEnds(files[k].text) = <<>>) =>
             /\ ~tensions[k].bound
             /\ pc = At("conv", k) => (toks = << <<>> >> /\ idx = 1)
             /\ failedAt = At("conv", k) => exc = "ValueError"
             /\ pc.at \notin {"assert", "duration", "linspace"}
    /\ \A k \in Files : tensions[k].bound => Len(tensions[k].val) >= 1
    /\ t.bound => Len(t.val) >= 1

C7_Witness ==
    /\ files[1] = TextFile(<<"[", "]">>)
    /\ pc = Exited
    /\ failedAt = At("conv", 1)
    /\ exc = "ValueError"

\* C8 as stated: a file handle is open only until the content has been
\* read, never while tokens are converted.
C8_Original ==
    \A k \in Files : handle[k] = "open" => pc = At("read", k)

\* C8 amended: the handle of a file is open only inside that file's with
\* block, which holds the read and the conversion of its tokens; it is
\* closed when the block is left, also by a parse error, so no handle is
\* open while the other file is processed, after a failure, or at rendering.
C8_HandleScoped ==
    \A k \in Files :
       /\ handle[k] = "open" =>
             /\ pc \in {At("read", k), At("conv", k), At("exit", k)}
             /\ status = "running"
             /\ ~Rendering
       /\ (pc = Exited \/ Rendering) => handle[k] = "closed"

C8_Witness ==
    /\ pc = Exited
    /\ failedAt = At("conv", 1)
    /\ opens[1] = 1
    /\ handle[1] = "closed"

\* C9: every step moves forward in program order (the conversion loop moves
\* to its next token), a step that does not fail moves to the statement
\* right after it, a failure ends the run, no file is opened twice, a
\* failure at the first file leaves the second unopened, and the blocking
\* show is followed by the exit only.
C9_Linear ==
    [][/\ \/ Rank(pc') > Rank(pc)
          \/ pc' = pc /\ pc.at = "conv" /\ idx' = idx + 1
       /\ status' = "running" => Rank(pc') \in {Rank(pc), Rank(pc) + 1}
       /\ status' # "running" => pc' = Exited
       /\ status' = "ok" => pc = At("blocked", 0)
       /\ pc = At("blocked", 0) => (pc' = Exited /\ status' = "ok")
       /\ fig' = "shown" => pc' = At("blocked", 0)
       /\ \A k \in Files : opens'[k] <= 1
       /\ failedAt'.k = 1 => opens'[2] = 0
       /\ (pc'.at = "open" /\ pc'.k = 2) => tensions'[1].bound
       /\ Rank(pc') >= Rank(At("assert", 0)) /\ pc' # Exited =>
             \A k \in Files : tensions'[k].bound
      ]_vars

C9_Witness ==
    /\ pc = Exited
    /\ status = "ok"
    /\ fig = "closed"
    /\ \A k \in Files : opens[k] = 1

\* C10: the first and last character are cut off whatever they are; a
\* bracketed list followed by one newline keeps its "]" on the last token
\* and fails with a ValueError there, so the series is never bound.
C10_TrailingNewline ==
    \A k \in Files :
       /\ (files[k].kind = "text" /\ files[k].text \in NewlineTexts) =>
                /\ ~tensions[k].bound
                /\ pc \in {At("conv", k), At("exit", k)} =>
                      /\ toks # <<>>
                      /\ toks[Len(toks)] # <<>>
                      /\ toks[Len(toks)][Len(toks[Len(toks)])] = "]"
                /\ pc = At("exit", k) =>
                      /\ failedAt = At("conv", k)
                      /\ exc = "ValueError"
                      /\ idx = Len(toks)
                /\ Rank(pc) <= Rank(At("exit", k)) \/ pc = Exited
       /\ files[k] = TextFile(<<"a", "1", ".", "0", "a">>) =>
             /\ failedAt # At("conv", k)
             /\ tensions[k].bound => tensions[k].val = <<Fin(1, 1)>>

C10_Witness ==
    /\ files[1] = TextFile(Serialize(<<Fin(1, 1), Fin(-5, 2)>>) \o <<"\n">>)
    /\ pc = At("exit", 1)
    /\ failedAt = At("conv", 1)
    /\ idx = 2

=============================================================================
